---- MODULE Spec2Model ----
(***************************************************************************)
(* AWB scraper: the table extraction and normalization pipeline.           *)
(*                                                                         *)
(*   handleScrape (UI)  ->  POST /api/scrape (server: scraper.scrape(),    *)
(*   table filter, response envelope)  ->  parseTableData (UI:             *)
(*   parseDCSCTables / parseGMRTables).                                    *)
(*                                                                         *)
(* Strings are sequences of one-character strings, so that trim(),        *)
(* replace(/\s+/g, ..), includes(), startsWith(), toLowerCase(), length    *)
(* and the date regular expression are computed character by character.   *)
(* An HTML document is the sequence of its <table> elements, each with an  *)
(* id attribute (empty when absent) and its <tr> elements, each the        *)
(* sequence of its <td>/<th> elements with their text content; tables are  *)
(* not nested.  A Record (a JavaScript object) is a function from keys to  *)
(* values; the insertion order of its keys is not modelled.                *)
(***************************************************************************)
EXTENDS Integers, Sequences, FiniteSets, TLC

VARIABLES service, awbNumber, html, clock, ticks, pc, loading, error, data,
          scraped, response, runs

vars == <<service, awbNumber, html, clock, ticks, pc, loading, error, data,
          scraped, response, runs>>

(***************************************************************************)
(* Characters and strings                                                  *)
(***************************************************************************)
UpperChars == <<"A","B","C","D","E","F","G","H","I","J","K","L","M",
                "N","O","P","Q","R","S","T","U","V","W","X","Y","Z">>
LowerChars == <<"a","b","c","d","e","f","g","h","i","j","k","l","m",
                "n","o","p","q","r","s","t","u","v","w","x","y","z">>
DigitChars == <<"0","1","2","3","4","5","6","7","8","9">>

Range(s) == { s[i] : i \in DOMAIN s }

\* \s of the regular expressions and of String.prototype.trim
IsSpace(c) == c \in {" ", "\t", "\n"}
\* \d
IsDigit(c) == c \in Range(DigitChars)
\* \w
IsWord(c) == c \in Range(UpperChars) \cup Range(LowerChars) \cup Range(DigitChars) \cup {"_"}

\* one character of String.prototype.toLowerCase
LowerChar(c) ==
    IF c \in Range(UpperChars)
    THEN LowerChars[CHOOSE i \in DOMAIN UpperChars : UpperChars[i] = c]
    ELSE c

ToLowerCase(s) == [i \in DOMAIN s |-> LowerChar(s[i])]

RECURSIVE TrimStart(_)
TrimStart(s) ==
    IF s = <<>> THEN <<>>
    ELSE IF IsSpace(Head(s)) THEN TrimStart(Tail(s)) ELSE s

RECURSIVE TrimEnd(_)
TrimEnd(s) ==
    IF s = <<>> THEN <<>>
    ELSE IF IsSpace(s[Len(s)]) THEN TrimEnd(SubSeq(s, 1, Len(s) - 1)) ELSE s

\* String.prototype.trim
Trim(s) == TrimEnd(TrimStart(s))

\* s.replace(/\s+/g, r) for a one-character r: the first character of every
\* maximal run of whitespace becomes r and the rest of the run goes
ReplaceSpaceRuns(s, r) ==
    LET marked == [i \in DOMAIN s |->
                     IF ~ IsSpace(s[i]) THEN s[i]
                     ELSE IF i > 1 /\ IsSpace(s[i - 1]) THEN "" ELSE r]
        Kept(c) == c # ""
    IN  SelectSeq(marked, Kept)

\* String.prototype.startsWith
StartsWith(s, p) == Len(s) >= Len(p) /\ SubSeq(s, 1, Len(p)) = p

\* String.prototype.includes
Includes(s, sub) ==
    \E i \in 0..(Len(s) - Len(sub)) : SubSeq(s, i + 1, i + Len(sub)) = sub

\* the decimal digits of a template literal ${n}, n >= 0
RECURSIVE NumberToString(_)
NumberToString(n) ==
    IF n < 10 THEN <<DigitChars[n + 1]>>
    ELSE NumberToString(n \div 10) \o <<DigitChars[(n % 10) + 1]>>

\* /^\d{2}-\w{3}-\d{2}/.test(cell)
DateLike(s) ==
    /\ Len(s) >= 9
    /\ IsDigit(s[1]) /\ IsDigit(s[2])
    /\ s[3] = "-"
    /\ IsWord(s[4]) /\ IsWord(s[5]) /\ IsWord(s[6])
    /\ s[7] = "-"
    /\ IsDigit(s[8]) /\ IsDigit(s[9])

\* a string of n copies of the character c
Rep(c, n) == [i \in 1..n |-> c]

(***************************************************************************)
(* String literals of the source                                           *)
(***************************************************************************)
strDETAILS == <<"D","E","T","A","I","L","S">>
strGrid    == <<"G","r","i","d">>
strGrd     == <<"g","r","d">>
strTable_  == <<"t","a","b","l","e","_">>
strColumn_ == <<"C","o","l","u","m","n"," ">>
strNoData  == <<"N","o"," ","D","a","t","a"," ","F","o","u","n","d">>

Null == "null"


\* null / undefined is the empty sequence, a present value x is <<x>>
None == <<>>
Some(x) == <<x>>

(***************************************************************************)
(* scraper.js: class AWBScraper                                            *)
(***************************************************************************)
\* this.serviceOptions
ServiceOptions(serviceOption) ==
    IF serviceOption = "1" THEN "DCSC - Delhi Cargo Service Centre"
    ELSE "GMR ARGO - Cargo Tracking"

\* new Date().toISOString(): the clock to the millisecond
ISOString(now) == now

\* CellKept with a fault: empty cells are kept
CellKeptAlways(text) == TRUE

\* if (text): a cell is kept when its trimmed text is not empty
CellKept(text) == text # <<>>

\* ExtractCells with a fault: the text is taken without .trim()
RECURSIVE ExtractCellsUntrimmed(_)
ExtractCellsUntrimmed(tr) ==
    IF tr = <<>> THEN <<>>
    ELSE LET text == Head(tr).text
             rest == ExtractCellsUntrimmed(Tail(tr))
         IN  IF CellKept(text)
             THEN <<[text |-> text, isHeader |-> (Head(tr).name = "th")]>> \o rest
             ELSE rest

\* the cells of one <tr>: $(row).find('td, th').each(...)
RECURSIVE ExtractCells(_)
ExtractCells(tr) ==
    IF tr = <<>> THEN <<>>
    ELSE LET text == Trim(Head(tr).text)
             rest == ExtractCells(Tail(tr))
         IN  IF CellKept(text)
             THEN <<[text |-> text, isHeader |-> (Head(tr).name = "th")]>> \o rest
             ELSE rest

\* if (cells.length > 0)
RowKept(cells) == Len(cells) > 0

\* the rows of one <table>: $table.find('tr').each((rowIdx, row) => ...)
RECURSIVE ExtractRows(_, _)
ExtractRows(trs, rowIdx) ==
    IF trs = <<>> THEN <<>>
    ELSE LET cells == ExtractCells(Head(trs))
             rest  == ExtractRows(Tail(trs), rowIdx + 1)
         IN  IF RowKept(cells)
             THEN <<[row_number |-> rowIdx, cells |-> cells]>> \o rest
             ELSE rest

\* $table.attr('id') || `table_${tableIndex}`
TableId(attr, tableIndex) ==
    IF attr # <<>> THEN attr ELSE strTable_ \o NumberToString(tableIndex)

\* if (rows.length > 0)
TableKept(rows) == Len(rows) > 0

\* InitialTableIndex with a fault: the counter is shared by the runs of the process
InitialTableIndexShared == Len(runs)

\* let tableIndex = 0
InitialTableIndex == 0

\* $('table').each((idx, table) => ...)
RECURSIVE ExtractTables(_, _)
ExtractTables(tables, tableIndex) ==
    IF tables = <<>> THEN <<>>
    ELSE LET rows == ExtractRows(Head(tables).trs, 0)
         IN  IF TableKept(rows)
             THEN <<[table_number |-> tableIndex,
                     table_id     |-> TableId(Head(tables).id, tableIndex),
                     total_rows   |-> Len(rows),
                     rows         |-> rows]>>
                  \o ExtractTables(Tail(tables), tableIndex + 1)
             ELSE ExtractTables(Tail(tables), tableIndex)

\* parseHTML(htmlContent), with this.awbNumber = awbNumber.trim() of the constructor
parseHTML(htmlContent, awb, serviceOption, now) ==
    [awb_number      |-> Trim(awb),
     service         |-> ServiceOptions(serviceOption),
     extraction_time |-> ISOString(now),
     all_tables      |-> ExtractTables(htmlContent, InitialTableIndex)]

\* scrape(): fetchHTML() returned null (html = None) or the document
scrape(fetched, awb, serviceOption, now) ==
    IF fetched = None THEN None
    ELSE Some(parseHTML(fetched[1], awb, serviceOption, now))

(***************************************************************************)
(* The server: app.post('/api/scrape')                                     *)
(***************************************************************************)
\* const serviceOption = service === 'gmr' ? '2' : '1'
ServiceOption(svc) == IF svc = "gmr" THEN "2" ELSE "1"

MsPerSecond == 1000

\* new Date().toLocaleString('en-IN', {timeZone: 'Asia/Kolkata'}): the date and
\* the time of day to the second
LocaleString(now) == now \div MsPerSecond

\* JSON.stringify(data).includes('No Data Found') with all_tables empty: the
\* service label and the ISO timestamp never hold the text, awb_number may
StringifyIncludesNoData(d) == Includes(d.awb_number, strNoData)

\* table.table_id.startsWith('Grid') || table.table_id.startsWith('grd')
IsGridTable(table) ==
    StartsWith(table.table_id, strGrid) \/ StartsWith(table.table_id, strGrd)

\* UsefulTables with a fault: every extracted table is passed on
UsefulTablesAll(serviceOption, all_tables) == all_tables

\* Filter useful tables based on service
UsefulTables(serviceOption, all_tables) ==
    IF serviceOption = "2"
    THEN SelectSeq(all_tables, IsGridTable)
    ELSE IF Len(all_tables) > 0 THEN <<all_tables[1]>> ELSE <<>>

\* table.rows.map(row => row.cells.map(cell => cell.text))
RowTexts(rows) ==
    [i \in DOMAIN rows |-> [j \in DOMAIN rows[i].cells |-> rows[i].cells[j].text]]

\* ResponseTable with a fault: the extractor's table_number is passed on
ResponseTableKeepsNumber(table, idx) ==
    [table_id     |-> table.table_id,
     table_number |-> table.table_number,
     total_rows   |-> Len(table.rows),
     rows         |-> RowTexts(table.rows)]

\* one element of usefulTables.map((table, idx) => ...), idx counted from 0
ResponseTable(table, idx) ==
    [table_id     |-> table.table_id,
     table_number |-> idx + 1,
     total_rows   |-> Len(table.rows),
     rows         |-> RowTexts(table.rows)]

\* const responseData = {...}
ResponseData(d, serviceOption, now) ==
    LET usefulTables == UsefulTables(serviceOption, d.all_tables)
    IN  [awb_number      |-> d.awb_number,
         service_name    |-> d.service,
         service_code    |-> serviceOption,
         extraction_time |-> LocaleString(now),
         total_tables    |-> Len(usefulTables),
         tables          |-> [i \in DOMAIN usefulTables |->
                                 ResponseTable(usefulTables[i], i - 1)]]

Failure(status, message) ==
    [status |-> status, success |-> FALSE, error |-> message, data |-> None]

Success(d) ==
    [status |-> 200, success |-> TRUE, error |-> Null, data |-> Some(d)]


(***************************************************************************)
(* The UI: parseTableData, parseDCSCTables, parseGMRTables                 *)
(***************************************************************************)
\* obj[key] = value on a JavaScript object: a later key of the same name
\* overwrites the earlier value
Put(obj, key, value) ==
    [k \in (DOMAIN obj) \cup {key} |-> IF k = key THEN value ELSE obj[k]]

EmptyObject == [k \in {} |-> <<>>]

\* h.trim().replace(/\s+/g, ' ')
CleanHeader(h) == ReplaceSpaceRuns(Trim(h), " ")

\* HeaderKey with a fault: the key is always the positional placeholder
HeaderKeyPositional(header, j) == strColumn_ \o NumberToString(j + 1)

\* header || `Column ${j + 1}`, j counted from 0
HeaderKey(header, j) ==
    IF header # <<>> THEN header ELSE strColumn_ \o NumberToString(j + 1)

\* row[j] || '' for a defined cell
CellValue(cell) == IF cell # <<>> THEN cell ELSE <<>>

\* row.length === 1 && row[0].includes('DETAILS')
IsSectionTitle(row) == Len(row) = 1 /\ Includes(row[1], strDETAILS)

\* LooksLikeHeader with a fault: the date test is left out
LooksLikeHeaderNoDate(row) ==
    /\ Len(row) > 1
    /\ Len(row) < 20
    /\ \A j \in DOMAIN row : Len(row[j]) > 0 /\ Len(row[j]) < 50

\* const looksLikeHeader = ...
LooksLikeHeader(row) ==
    /\ Len(row) > 1
    /\ Len(row) < 20
    /\ \A j \in DOMAIN row : Len(row[j]) > 0 /\ Len(row[j]) < 50
    /\ ~ \E j \in DOMAIN row : DateLike(row[j])

\* currentHeaders.forEach((header, j) => { obj[header || ...] = row[j] || '' })
RECURSIVE DCSCRecordFrom(_, _, _, _)
DCSCRecordFrom(headers, row, j, obj) ==
    IF j > Len(headers) THEN obj
    ELSE DCSCRecordFrom(headers, row, j + 1,
             Put(obj, HeaderKey(headers[j], j - 1),
                 IF j <= Len(row) THEN CellValue(row[j]) ELSE <<>>))

DCSCRecord(headers, row) == DCSCRecordFrom(headers, row, 1, EmptyObject)

\* FlushSection with a fault: the section is pushed whether or not it holds data
FlushSectionAlways(allSections, currentSection) ==
    IF currentSection # None
    THEN Append(allSections, currentSection[1])
    ELSE allSections

\* if (currentSection && currentSection.data.length > 0) allSections.push(currentSection)
FlushSection(allSections, currentSection) ==
    IF currentSection # None /\ Len(currentSection[1].data) > 0
    THEN Append(allSections, currentSection[1])
    ELSE allSections

\* StartSection with a fault: the headers of the section before stay in force
StartSectionKeepsHeaders(st, row) ==
    [allSections    |-> FlushSection(st.allSections, st.currentSection),
     currentSection |-> Some([section_title |-> Trim(row[1]),
                              table_id      |-> ReplaceSpaceRuns(ToLowerCase(row[1]), "_"),
                              data          |-> <<>>,
                              from          |-> <<>>]),
     currentHeaders |-> st.currentHeaders,
     headerRow      |-> st.headerRow]

\* currentSection = {...}; currentHeaders = []: the loop's state after a title row.
\* headerRow and the sections' field from are history: the index i of the row
\* the current headers came from, and for each Record of data the pair
\* <<index of its header row, index of its own row>>.
StartSection(st, row) ==
    [allSections    |-> FlushSection(st.allSections, st.currentSection),
     currentSection |-> Some([section_title |-> Trim(row[1]),
                              table_id      |-> ReplaceSpaceRuns(ToLowerCase(row[1]), "_"),
                              data          |-> <<>>,
                              from          |-> <<>>]),
     currentHeaders |-> <<>>,
     headerRow      |-> 0]

\* if (looksLikeHeader && currentHeaders.length === 0)
TakesHeader(st, row) == LooksLikeHeader(row) /\ Len(st.currentHeaders) = 0

\* else if (currentHeaders.length > 0 && row.length === currentHeaders.length)
TakesData(st, row) ==
    Len(st.currentHeaders) > 0 /\ Len(row) = Len(st.currentHeaders)

\* one iteration of for (let i = 0; i < rows.length; i++), i counted from 1
DCSCRow(st, row, i) ==
    IF IsSectionTitle(row) THEN StartSection(st, row)
    ELSE IF st.currentSection = None \/ Len(row) = 0 THEN st
    ELSE IF TakesHeader(st, row)
         THEN [st EXCEPT !.currentHeaders = [j \in DOMAIN row |-> CleanHeader(row[j])],
                         !.headerRow = i]
    ELSE IF TakesData(st, row)
         THEN [st EXCEPT !.currentSection[1].data =
                             Append(@, DCSCRecord(st.currentHeaders, row)),
                         !.currentSection[1].from =
                             Append(@, <<st.headerRow, i>>)]
    ELSE st

RECURSIVE DCSCRows(_, _, _)
DCSCRows(st, rows, i) ==
    IF i > Len(rows) THEN st
    ELSE DCSCRows(DCSCRow(st, rows[i], i), rows, i + 1)

\* the body of rawData.tables.forEach((table) => ...): the sections after the
\* table, given those before it
DCSCTable(allSections, rows) ==
    LET st == DCSCRows([allSections    |-> allSections,
                        currentSection |-> None,
                        currentHeaders |-> <<>>,
                        headerRow      |-> 0], rows, 1)
    IN  FlushSection(st.allSections, st.currentSection)

RECURSIVE DCSCSections(_, _, _)
DCSCSections(allSections, tables, t) ==
    IF t > Len(tables) THEN allSections
    ELSE DCSCSections(DCSCTable(allSections, tables[t].rows), tables, t + 1)

\* one element of allSections.map((section, idx) => ...), idx counted from 0
DCSCOutputTable(section, idx) ==
    [table_id      |-> section.table_id,
     table_number  |-> idx + 1,
     section_title |-> section.section_title,
     data          |-> section.data,
     total_rows    |-> Len(section.data)]

parseDCSCTables(rawData) ==
    LET allSections == DCSCSections(<<>>, rawData.tables, 1)
    IN  [rawData EXCEPT
            !.total_tables = Len(allSections),
            !.tables = [i \in DOMAIN allSections |->
                           DCSCOutputTable(allSections[i], i - 1)]]

\* rows[i].length > 1 && rows[i].every(cell => cell.length < 100)
GMRHeaderLike(row) ==
    Len(row) > 1 /\ \A j \in DOMAIN row : Len(row[j]) < 100

\* let headerRowIndex = 0; for (...) { if (...) { headerRowIndex = i; break } }
\* as an index counted from 1
\* GMRHeaderScan with a fault: without the break the last matching row wins
GMRHeaderScanLast(rows, i) ==
    LET matching == { m \in i..Len(rows) : GMRHeaderLike(rows[m]) }
    IN  IF matching = {} THEN 1
        ELSE CHOOSE m \in matching : \A n \in matching : n <= m

RECURSIVE GMRHeaderScan(_, _)
GMRHeaderScan(rows, i) ==
    IF i > Len(rows) THEN 1
    ELSE IF GMRHeaderLike(rows[i]) THEN i
    ELSE GMRHeaderScan(rows, i + 1)

GMRHeaderRowIndex(rows) == GMRHeaderScan(rows, 1)

\* headers.forEach((header, i) => { if (header && row[i] !== undefined) ... })
RECURSIVE GMRRecordFrom(_, _, _, _)
GMRRecordFrom(headers, row, i, obj) ==
    IF i > Len(headers) THEN obj
    ELSE GMRRecordFrom(headers, row, i + 1,
             IF headers[i] # <<>> /\ i <= Len(row)
             THEN Put(obj, HeaderKey(headers[i], i - 1), CellValue(row[i]))
             ELSE obj)

\* GMRRecord with a fault: a missing cell gives its key the empty string
GMRRecordPadded(headers, row) == DCSCRecord(headers, row)

GMRRecord(headers, row) == GMRRecordFrom(headers, row, 1, EmptyObject)

\* rows.slice(headerRowIndex + 1)
GMRDataRows(rows, headerRowIndex) == SubSeq(rows, headerRowIndex + 1, Len(rows))

\* one element of rawData.tables.map((table) => ...)
GMROutputTable(table) ==
    LET rows     == table.rows
        h        == GMRHeaderRowIndex(rows)
        headers  == [j \in DOMAIN rows[h] |-> CleanHeader(rows[h][j])]
        dataRows == GMRDataRows(rows, h)
        cleanData == [k \in DOMAIN dataRows |-> GMRRecord(headers, dataRows[k])]
    IN  [table_id     |-> table.table_id,
         table_number |-> table.table_number,
         data         |-> cleanData,
         total_rows   |-> Len(cleanData)]

parseGMRTables(rawData) ==
    [rawData EXCEPT !.tables = [t \in DOMAIN rawData.tables |->
                                   GMROutputTable(rawData.tables[t])]]

\* rows[headerRowIndex] is undefined for a table without rows: .map throws
parseTableDataThrows(rawData) ==
    rawData.service_code = "2" /\ \E t \in DOMAIN rawData.tables : Len(rawData.tables[t].rows) = 0

parseTableData(rawData) ==
    IF rawData.service_code = "1" THEN parseDCSCTables(rawData)
    ELSE IF rawData.service_code = "2" THEN parseGMRTables(rawData)
    ELSE rawData


(***************************************************************************)
(* Inputs: the request and the document the tracking site answers with     *)
(***************************************************************************)
MaxBlocksA == 3  \* blocks of <tr> elements of a source A document
MaxRowsB  == 4   \* <tr> elements of a source B document
MaxRowsH  == 3   \* <tr> elements after the section title of a header-selection document
MaxTables == 3   \* <table> elements of a document of several tables
MaxTablesRuns == 2  \* <table> elements of a document scraped more than once
MaxTicks  == 2   \* advances of the clock
MaxRuns   == 2   \* requests for the same document

Td(text) == [name |-> "td", text |-> text]
Th(text) == [name |-> "th", text |-> text]

txtAwbDetails == <<"A","W","B"," ","D","E","T","A","I","L","S">>
txtPadDetails == <<" ","X"," "," ","D","E","T","A","I","L","S"," ">>
txtLower      == <<"d","e","t","a","i","l","s">>
txtDate       == <<"D","a","t","e">>
txtStatus     == <<"S","t","a","t","u","s">>
txtDay        == <<"0","5","-","J","a","n","-","2","4">>
txtArrived    == <<"A","r","r","i","v","e","d">>
txtFlightNo2  == <<"F","l","i","g","h","t"," "," ","N","o">>
txtFlightNo   == <<" ","F","l","i","g","h","t"," ","N","o">>
txtPcs        == <<"P","c","s">>
txtBlank      == <<" ">>
txtEmpty      == <<>>

trTitle    == <<Th(txtAwbDetails)>>
trTitlePad == <<Td(txtEmpty), Td(txtPadDetails), Td(txtBlank)>>
trLower    == <<Td(txtLower)>>
trHead2    == <<Th(txtDate), Th(txtStatus)>>
trDate2    == <<Td(txtDay), Td(txtArrived)>>
trDup3     == <<Td(txtFlightNo2), Td(txtFlightNo), Td(txtPcs)>>
trLong50   == <<Td(Rep("x", 50)), Td(txtPcs)>>
trLong100  == <<Td(Rep("x", 100)), Td(txtPcs)>>
trOne      == <<Td(txtArrived)>>
trEmpty    == <<Td(txtBlank), Td(txtEmpty)>>
trEdge49   == <<Td(Rep("x", 49)), Td(txtPcs)>>
tr19       == [j \in 1..19 |-> Td(txtPcs)]
tr20       == [j \in 1..20 |-> Td(txtPcs)]
trHeadGap  == <<Th(txtDate), Th(txtBlank), Th(txtStatus)>>
trDataGap  == <<Td(txtDay), Td(txtEmpty), Td(txtArrived)>>

\* source A documents are built from single rows, a header followed by
\* a data row, and whole sections
BlockPoolA ==
    { <<trTitle>>, <<trTitlePad>>, <<trLower>>, <<trHead2>>, <<trDate2>>, <<trDup3>>,
      <<trLong50>>, <<trEmpty>>, <<trHead2, trDate2>>, <<trTitle, trHead2, trDate2>>,
      <<trTitlePad, trHead2, trDate2>> }
\* header-selection documents: rows at the limits of the header test, and
\* rows with an empty cell between two others
RowPoolH == {trLong50, trEdge49, tr19, tr20, trHeadGap, trDataGap}
PrefixPoolH == { <<>>, <<trHead2, trDate2>> }
RowPoolB == {trOne, trLong100, trHead2, trDate2, trDup3, trEmpty}

idNone  == <<>>
idGrid1 == <<"G","r","i","d","1">>
idGrdX  == <<"g","r","d","X">>
idTbl   == <<"t","b","l">>

TablePool ==
    { [id |-> idGrid1, trs |-> <<trHead2, trDate2>>],
      [id |-> idGrdX,  trs |-> <<trHead2>>],
      [id |-> idNone,  trs |-> <<trTitlePad, trEmpty, trHead2, trDate2>>],
      [id |-> idNone,  trs |-> <<trEmpty>>],
      [id |-> idTbl,   trs |-> <<trLower>>],
      [id |-> idGrid1, trs |-> <<>>] }

\* the sequences over S of length at most n
SeqUpTo(S, n) == UNION { [1..k -> S] : k \in 0..n }

\* the concatenation of a sequence of sequences
RECURSIVE Flatten(_)
Flatten(ss) == IF ss = <<>> THEN <<>> ELSE Head(ss) \o Flatten(Tail(ss))

awbDefault == <<"0","5","7","1">>
awbPadded  == <<" ","0","5","7","-","1"," ">>
AwbNumbers == {<<>>, <<" ">>, awbPadded, strNoData}

Services == {"gmr", "dcsc", "C"}

\* a request: the service and AWB number entered, and what fetchHTML() gets
Request(svc, awb, fetched) == [service |-> svc, awbNumber |-> awb, html |-> fetched]

RequestsA ==
    { Request("dcsc", awbDefault, Some(<<[id |-> idNone, trs |-> Flatten(blocks)]>>)) :
        blocks \in SeqUpTo(BlockPoolA, MaxBlocksA) }

RequestsB ==
    { Request("gmr", awbDefault, Some(<<[id |-> idGrid1, trs |-> trs]>>)) :
        trs \in SeqUpTo(RowPoolB, MaxRowsB) }

RequestsH ==
    { Request("dcsc", awbDefault,
              Some(<<[id |-> idNone, trs |-> prefix \o <<trTitle>> \o trs]>>)) :
        prefix \in PrefixPoolH, trs \in SeqUpTo(RowPoolH, MaxRowsH) }

RequestsM ==
    { Request(svc, awb, Some(doc)) :
        svc \in Services, awb \in AwbNumbers, doc \in SeqUpTo(TablePool, MaxTables) }

RequestsFailed == { Request(svc, awb, None) : svc \in Services, awb \in AwbNumbers }

Requests == RequestsA \cup RequestsB \cup RequestsH \cup RequestsM \cup RequestsFailed

RequestsRuns ==
    { Request(svc, awbPadded, Some(doc)) :
        svc \in Services, doc \in SeqUpTo(TablePool, MaxTablesRuns) }

(***************************************************************************)
(* The state machine                                                       *)
(***************************************************************************)
InitWith(reqs) ==
    /\ \E req \in reqs :
          /\ service = req.service
          /\ awbNumber = req.awbNumber
          /\ html = req.html
    /\ clock = 0
    /\ ticks = 0
    /\ pc = "idle"
    /\ loading = FALSE
    /\ error = Null
    /\ data = None
    /\ scraped = None
    /\ response = None
    /\ runs = <<>>

Init == InitWith(Requests)

InitRuns == InitWith(RequestsRuns)

\* handleScrape, up to the fetch of /api/scrape
Click ==
    IF Trim(awbNumber) = <<>>
    THEN /\ error' = "Please enter AWB number"
         /\ pc' = "done"
         /\ UNCHANGED <<loading, data>>
    ELSE /\ loading' = TRUE
         /\ error' = Null
         /\ data' = None
         /\ pc' = "requested"

HandleScrape ==
    /\ pc = "idle"
    /\ Click
    /\ UNCHANGED <<service, awbNumber, html, clock, ticks, scraped, response, runs>>

\* handleScrape once more for the same AWB number, after the first has ended
ScrapeAgain ==
    /\ pc = "done"
    /\ Len(runs) < MaxRuns
    /\ Click
    /\ UNCHANGED <<service, awbNumber, html, clock, ticks, scraped, response, runs>>

\* app.post('/api/scrape') up to const data = await scraper.scrape()
ServerScrape ==
    /\ pc = "requested"
    /\ IF awbNumber = <<>>
       THEN /\ response' = Some(Failure(400, "AWB number is required"))
            /\ pc' = "responded"
            /\ UNCHANGED scraped
       ELSE /\ scraped' = scrape(html, awbNumber, ServiceOption(service), clock)
            /\ pc' = "scraped"
            /\ UNCHANGED response
    /\ UNCHANGED <<service, awbNumber, html, clock, ticks, loading, error, data, runs>>

\* app.post('/api/scrape') from if (!data) to res.json(...)
ServerRespond ==
    /\ pc = "scraped"
    /\ LET serviceOption == ServiceOption(service)
       IN  IF scraped = None
           THEN response' = Some(Failure(500, "Failed to scrape data. Please check AWB number and try again."))
           ELSE IF /\ serviceOption = "1"
                   /\ Len(scraped[1].all_tables) = 0
                   /\ StringifyIncludesNoData(scraped[1])
           THEN response' = Some(Failure(404, "No Data Found for this AWB number in DCSC system. Please verify the AWB number."))
           ELSE LET responseData == ResponseData(scraped[1], serviceOption, clock)
                IN  response' = Some(Success(responseData))
    /\ pc' = "responded"
    /\ UNCHANGED <<service, awbNumber, html, clock, ticks, loading, error, data, scraped, runs>>

\* handleScrape from if (!response.ok) to finally.  runs is history: the
\* envelope received and the envelope shown, for every run that showed one.
Receive ==
    /\ pc = "responded"
    /\ LET res == response[1]
       IN  IF ~ (res.status >= 200 /\ res.status <= 299)
           THEN /\ error' = "Error: HTTP error!"
                /\ UNCHANGED <<data, runs>>
           ELSE IF ~ res.success
           THEN /\ error' = res.error
                /\ UNCHANGED <<data, runs>>
           ELSE IF parseTableDataThrows(res.data[1])
           THEN /\ error' = "Error: TypeError"
                /\ UNCHANGED <<data, runs>>
           ELSE LET parsedData == parseTableData(res.data[1])
                IN  /\ data' = Some(parsedData)
                    /\ runs' = Append(runs, [raw |-> res.data[1], shown |-> parsedData])
                    /\ UNCHANGED error
    /\ loading' = FALSE
    /\ pc' = "done"
    /\ UNCHANGED <<service, awbNumber, html, clock, ticks, scraped, response>>

\* time passes
Tick ==
    /\ ticks < MaxTicks
    /\ \E d \in {1, MsPerSecond} : clock' = clock + d
    /\ ticks' = ticks + 1
    /\ UNCHANGED <<service, awbNumber, html, pc, loading, error, data, scraped, response, runs>>

Next == HandleScrape \/ ServerScrape \/ ServerRespond \/ Receive

Spec == Init /\ [][Next]_vars

NextRuns == HandleScrape \/ ServerScrape \/ ServerRespond \/ Receive \/ ScrapeAgain \/ Tick

SpecRuns == InitRuns /\ [][NextRuns]_vars


(***************************************************************************)
(* Properties                                                              *)
(***************************************************************************)
\* the run has ended with an envelope shown by the UI
Shown == pc = "done" /\ data # None
\* the envelope the server answered with, and its tables of rows of strings
Raw == response[1].data[1]
\* the envelope after parseTableData
Out == data[1]
SourceA == Raw.service_code = "1"
SourceB == Raw.service_code = "2"

\* the key a Record gets for one header cell: its text trimmed, whitespace
\* runs collapsed, or the placeholder Column <position> when that is empty
DerivedKey(cell, position) ==
    LET clean == CleanHeader(cell)
    IN  IF clean = <<>> THEN strColumn_ \o NumberToString(position) ELSE clean

DerivedKeys(headerRow) == { DerivedKey(headerRow[j], j) : j \in DOMAIN headerRow }

DistinctKeys(headerRow) == Cardinality(DerivedKeys(headerRow)) = Len(headerRow)

\* source A: the sections parseDCSCTables collected, with their history
SectionsA == DCSCSections(<<>>, Raw.tables, 1)
\* source A: the rows of the one table the server hands over
RowsA == Raw.tables[1].rows
\* every Record of the output of source A with the header row and the row it
\* was built from
RecordsOfSectionA(s) ==
    { [rec |-> Out.tables[s].data[k],
       headerRow |-> RowsA[SectionsA[s].from[k][1]],
       row |-> RowsA[SectionsA[s].from[k][2]]] :
        k \in 1..Len(Out.tables[s].data) }

RecordsA == UNION { RecordsOfSectionA(s) : s \in DOMAIN Out.tables }

\* every Record of the output of source B with the header row and the row it
\* was built from
RecordsOfTableB(t) ==
    LET rows == Raw.tables[t].rows
        h    == GMRHeaderRowIndex(rows)
    IN  { [rec |-> Out.tables[t].data[k], headerRow |-> rows[h], row |-> rows[h + k]] :
            k \in 1..Len(Out.tables[t].data) }

RecordsB == UNION { RecordsOfTableB(t) : t \in DOMAIN Out.tables }

RecordsShown == IF SourceA THEN RecordsA ELSE RecordsB


\* C1 as stated: every Record has as many keys as its header row has cells, and
\* its key set is the key set derived from that header row.
C1_KeysEqualHeaderCells ==
    Shown =>
        \A r \in RecordsShown :
            /\ Cardinality(DOMAIN r.rec) = Len(r.headerRow)
            /\ DOMAIN r.rec = DerivedKeys(r.headerRow)

\* C1 (amended): every Record's key set is a subset of the key set derived from
\* the header row used, so it has at most as many keys as the header row has
\* cells; the key set is that derived set for source A, and for source B when
\* the data row has at least as many cells as the header row; and then the
\* number of keys is the number of header cells exactly when the derived
\* keys of the header row are pairwise distinct.
C1_KeysWithinHeader ==
    Shown =>
        \A r \in RecordsShown :
            /\ DOMAIN r.rec \subseteq DerivedKeys(r.headerRow)
            /\ Cardinality(DOMAIN r.rec) <= Len(r.headerRow)
            /\ (SourceA \/ Len(r.row) >= Len(r.headerRow)) =>
                  /\ DOMAIN r.rec = DerivedKeys(r.headerRow)
                  /\ (Cardinality(DOMAIN r.rec) = Len(r.headerRow)
                         <=> DistinctKeys(r.headerRow))

\* C1 witness: source A maps a row under a header row with a repeated key
C1_Witness ==
    /\ Shown
    /\ SourceA
    /\ \E r \in RecordsShown : ~ DistinctKeys(r.headerRow)


\* the n-th smallest element of a set of numbers
Nth(K, n) == CHOOSE i \in K : Cardinality({ j \in K : j <= i }) = n

\* source A, stated on the rows alone: the section-start rows, the rows of the
\* section a start opens (up to the next start or the end of the table), the
\* first header candidate among them, and the rows mapped under it
StartsA == { i \in DOMAIN RowsA : Len(RowsA[i]) = 1 /\ Includes(RowsA[i][1], strDETAILS) }
SegmentA(i) ==
    { j \in DOMAIN RowsA : j > i /\ ~ \E m \in StartsA : i < m /\ m <= j }
HeaderCandidatesA(i) == { j \in SegmentA(i) : LooksLikeHeader(RowsA[j]) }
MappedRowsA(i) ==
    IF HeaderCandidatesA(i) = {} THEN {}
    ELSE LET h == Nth(HeaderCandidatesA(i), 1)
         IN  { j \in SegmentA(i) : j > h /\ Len(RowsA[j]) = Len(RowsA[h]) }
\* the section-start rows whose section holds a Record when it is flushed
NonEmptyStartsA == { i \in StartsA : MappedRowsA(i) # {} }

\* C2: source A emits one Section per section-start row whose section has at
\* least one Record at the next section-start row or the end of the table, in
\* the order of those rows, and no emitted Section has empty data.
C2_SectionFlushLaw ==
    (Shown /\ SourceA) =>
        IF Raw.tables = <<>> THEN Out.tables = <<>>
        ELSE /\ Len(Out.tables) = Cardinality(NonEmptyStartsA)
             /\ Out.total_tables = Cardinality(NonEmptyStartsA)
             /\ \A n \in DOMAIN Out.tables :
                   /\ Out.tables[n].section_title = Trim(RowsA[Nth(NonEmptyStartsA, n)][1])
                   /\ Len(Out.tables[n].data) = Cardinality(MappedRowsA(Nth(NonEmptyStartsA, n)))
                   /\ Out.tables[n].data # <<>>

\* C2 witness: two Sections are emitted and a third section-start row, whose
\* section stayed empty, is not
C2_Witness ==
    /\ Shown /\ SourceA /\ Raw.tables # <<>>
    /\ Len(Out.tables) = 2
    /\ Out.tables[1].section_title # Out.tables[2].section_title
    /\ Cardinality(StartsA) > 2


\* the server answered with an envelope
Answered == response # None /\ response[1].success
\* the tables parseHTML extracted
AllTables == scraped[1].all_tables

DenselyNumbered(envelope) ==
    /\ envelope.total_tables = Len(envelope.tables)
    /\ \A i \in DOMAIN envelope.tables : envelope.tables[i].table_number = i

\* C3: the table_number values of the k tables or sections of the output
\* envelope are 1..k in output order, and total_tables is k, for both sources,
\* in the envelope the server answers with and in the one the UI shows.
C3_DenseNumbering ==
    /\ Answered => DenselyNumbered(Raw)
    /\ Shown => DenselyNumbered(Out)

\* C3 witness: source B shows two tables numbered 1 and 2 that the extractor
\* numbered otherwise, after a table without rows was discarded
C3_Witness ==
    /\ Shown /\ SourceB
    /\ Len(Out.tables) = 2
    /\ Len(AllTables) < Len(html[1])
    /\ \E i \in DOMAIN AllTables : AllTables[i].table_id = Out.tables[1].table_id
                                    /\ AllTables[i].table_number # 1

WithoutTime(envelope) == [envelope EXCEPT !.extraction_time = 0]

\* C4 as stated: two runs for the same source identifier and document give
\* identical envelopes in every field, the extraction timestamp included.
C4_Determinism ==
    \A i, j \in DOMAIN runs : runs[i] = runs[j]

\* C4 (amended): two runs for the same source identifier and document give
\* envelopes identical in every field other than extraction_time.
C4_DeterminismButTime ==
    \A i, j \in DOMAIN runs :
        /\ WithoutTime(runs[i].raw) = WithoutTime(runs[j].raw)
        /\ WithoutTime(runs[i].shown) = WithoutTime(runs[j].shown)

\* C4 witness: two runs showed envelopes with tables, at different times
C4_Witness ==
    /\ Len(runs) = 2
    /\ runs[1].shown.tables # <<>>
    /\ runs[1].shown.extraction_time # runs[2].shown.extraction_time

\* C5: a source identifier other than the two known ones makes the run fail
\* with UnsupportedSourceError; no envelope is answered or shown.
C5_UnsupportedSourceFails ==
    service \notin {"gmr", "dcsc"} =>
        /\ ~ Answered
        /\ data = None
        /\ (pc = "done" /\ html # None /\ Trim(awbNumber) # <<>>) =>
              error = "UnsupportedSourceError"


\* C6 as stated: the assembler filters nothing: for both sources every table
\* the extractor retained is handed on, in order, in the envelope the server
\* answers with.
C6_AssemblerFiltersNothing ==
    (Answered /\ service \in {"gmr", "dcsc"}) =>
        /\ Len(Raw.tables) = Len(AllTables)
        /\ \A i \in DOMAIN Raw.tables : Raw.tables[i].table_id = AllTables[i].table_id

\* the positions in the extractor's output of the tables the server hands on
HandedOn ==
    { i \in DOMAIN AllTables :
        IF SourceB
        THEN \/ StartsWith(AllTables[i].table_id, strGrid)
             \/ StartsWith(AllTables[i].table_id, strGrd)
        ELSE i = 1 }

\* C6 (amended): the server filters by source before it restructures: source B
\* keeps the retained tables whose table_id starts with Grid or grd, source A
\* the first retained table; each of those is handed on in extraction order
\* with all its rows as lists of cell texts, and source B shows one output
\* table for each.
C6_AssemblerFiltersBySource ==
    Answered =>
        /\ Len(Raw.tables) = Cardinality(HandedOn)
        /\ \A n \in DOMAIN Raw.tables :
              LET table == AllTables[Nth(HandedOn, n)]
              IN  /\ Raw.tables[n].table_id = table.table_id
                  /\ Raw.tables[n].total_rows = table.total_rows
                  /\ Len(Raw.tables[n].rows) = Len(table.rows)
                  /\ \A i \in DOMAIN table.rows :
                        /\ Len(Raw.tables[n].rows[i]) = Len(table.rows[i].cells)
                        /\ \A j \in DOMAIN table.rows[i].cells :
                              Raw.tables[n].rows[i][j] = table.rows[i].cells[j].text
        /\ (Shown /\ SourceB) =>
              /\ Len(Out.tables) = Len(Raw.tables)
              /\ \A n \in DOMAIN Out.tables : Out.tables[n].table_id = Raw.tables[n].table_id

\* C6 witness: source B shows a table, and the server dropped a retained one
C6_Witness ==
    /\ Shown /\ SourceB
    /\ Len(Out.tables) >= 1
    /\ Len(Raw.tables) < Len(AllTables)

\* C9: no cell of an extracted row has empty trimmed text, no extracted row is
\* without cells, no extracted table is without rows, and total_rows is the
\* number of rows of the table.
C9_ExtractorInvariant ==
    scraped # None =>
        \A t \in DOMAIN AllTables :
            /\ Len(AllTables[t].rows) > 0
            /\ AllTables[t].total_rows = Len(AllTables[t].rows)
            /\ \A i \in DOMAIN AllTables[t].rows :
                  /\ Len(AllTables[t].rows[i].cells) > 0
                  /\ \A j \in DOMAIN AllTables[t].rows[i].cells :
                        Trim(AllTables[t].rows[i].cells[j].text) # <<>>

\* C9 witness: the extractor kept a table and dropped another table, a row of
\* a kept table and a cell of a kept row
C9_Witness ==
    /\ scraped # None
    /\ Len(AllTables) >= 1
    /\ Len(AllTables) < Len(html[1])
    /\ \E t \in DOMAIN html[1], i \in DOMAIN AllTables :
          /\ ExtractRows(html[1][t].trs, 0) = AllTables[i].rows
          /\ Len(AllTables[i].rows) < Len(html[1][t].trs)
          /\ \E r \in DOMAIN AllTables[i].rows :
                Len(AllTables[i].rows[r].cells)
                   < Len(html[1][t].trs[AllTables[i].rows[r].row_number + 1])


Min(a, b) == IF a <= b THEN a ELSE b

\* the positions of a header row that a data row has a cell for
Covered(headerRow, row) == 1..Min(Len(headerRow), Len(row))

\* a Record maps the row onto the header row by position: its keys are the
\* derived keys of the covered positions, and each key holds the cell of the
\* last covered position of that key
MapsByPosition(rec, headerRow, row) ==
    /\ DOMAIN rec = { DerivedKey(headerRow[i], i) : i \in Covered(headerRow, row) }
    /\ \A i \in Covered(headerRow, row) :
          (\A m \in Covered(headerRow, row) :
              m > i => DerivedKey(headerRow[m], m) # DerivedKey(headerRow[i], i))
          => rec[DerivedKey(headerRow[i], i)] = row[i]

\* source B, stated on the rows alone: the rows that look like a header, and
\* the header row
HeaderLikeB(rows) ==
    { i \in DOMAIN rows : Len(rows[i]) > 1 /\ \A j \in DOMAIN rows[i] : Len(rows[i][j]) < 100 }
HeaderRowB(rows) == IF HeaderLikeB(rows) = {} THEN 1 ELSE Nth(HeaderLikeB(rows), 1)

\* C7: for source B the header row of a table is its first row with more than
\* one cell and every cell shorter than 100, or its first row when there is
\* none; the rows after the header row become the Records, one each, in
\* source order, so total_rows is the row count less the header row's
\* position; the rows before it give nothing.
C7_HeaderInference ==
    (Shown /\ SourceB) =>
        \A t \in DOMAIN Out.tables :
            LET rows == Raw.tables[t].rows
                h    == HeaderRowB(rows)
            IN  /\ rows # <<>>
                /\ Len(Out.tables[t].data) = Len(rows) - h
                /\ Out.tables[t].total_rows = Len(rows) - h
                /\ \A k \in DOMAIN Out.tables[t].data :
                      MapsByPosition(Out.tables[t].data[k], rows[h], rows[h + k])

\* C7 witness: a table whose header row is not its first row, with two rows
\* that look like a header and a Record
C7_Witness ==
    /\ Shown /\ SourceB
    /\ \E t \in DOMAIN Out.tables :
          /\ HeaderRowB(Raw.tables[t].rows) > 1
          /\ Cardinality(HeaderLikeB(Raw.tables[t].rows)) > 1
          /\ Len(Out.tables[t].data) >= 1

\* C7 second witness: no row of the table looks like a header, the first row
\* is the header row and the others become Records
C7_WitnessFallback ==
    /\ Shown /\ SourceB
    /\ \E t \in DOMAIN Out.tables :
          /\ HeaderLikeB(Raw.tables[t].rows) = {}
          /\ Len(Out.tables[t].data) >= 1

\* C8 as stated: a Record of source B from a row shorter than the header row
\* has a key for header position i exactly when the row has a cell at
\* position i.
C8_KeyIffCell ==
    (Shown /\ SourceB) =>
        \A r \in RecordsB :
            Len(r.row) < Len(r.headerRow) =>
                \A i \in DOMAIN r.headerRow :
                    DerivedKey(r.headerRow[i], i) \in DOMAIN r.rec <=> i <= Len(r.row)

\* C8 (amended): the keys of a Record of source B are the derived keys of the
\* header positions the row has a cell for, each with the cell of its last
\* such position; so a row shorter than a header row of pairwise distinct
\* keys gives a key for header position i exactly when it has a cell at
\* position i, and nothing, not even the empty string, for the missing
\* trailing columns; cells beyond the header row's length are dropped.
C8_ShortRowKeys ==
    (Shown /\ SourceB) =>
        \A r \in RecordsB :
            /\ MapsByPosition(r.rec, r.headerRow, r.row)
            /\ \A key \in DOMAIN r.rec :
                  \E i \in Covered(r.headerRow, r.row) : r.rec[key] = r.row[i]
            /\ DistinctKeys(r.headerRow) =>
                  \A i \in DOMAIN r.headerRow :
                      DerivedKey(r.headerRow[i], i) \in DOMAIN r.rec <=> i <= Len(r.row)

\* C8 witness: a Record from a row shorter than its header row, whose keys
\* are pairwise distinct
C8_Witness ==
    /\ Shown /\ SourceB
    /\ \E r \in RecordsB :
          /\ Len(r.row) < Len(r.headerRow)
          /\ DistinctKeys(r.headerRow)
          /\ DOMAIN r.rec # {}

\* C8 second witness: a Record from a row longer than its header row
C8_WitnessLongRow ==
    /\ Shown /\ SourceB
    /\ \E r \in RecordsB : Len(r.row) > Len(r.headerRow)

\* source A: every Record with the positions of its header row and of its row
ScopesA ==
    UNION { { SectionsA[s].from[k] : k \in DOMAIN SectionsA[s].from } : s \in DOMAIN SectionsA }

\* C10 as stated: between the header row h and the row r of a Record of
\* source A there is no section marker and no header candidate, and r is no
\* header candidate.
C10_HeaderScope ==
    (Shown /\ SourceA /\ Raw.tables # <<>>) =>
        \A hr \in ScopesA :
            /\ hr[1] < hr[2]
            /\ \A m \in (hr[1] + 1)..(hr[2] - 1) :
                  ~ IsSectionTitle(RowsA[m]) /\ ~ LooksLikeHeader(RowsA[m])
            /\ ~ LooksLikeHeader(RowsA[hr[2]])

\* C10 (amended): the header row h of a Record of source A built from row r
\* (h < r) is the first header candidate after the section marker that opens
\* the section of r, no section marker lies between h and r, and r has as
\* many cells as h and is mapped onto it by position; rows shaped like a
\* header after h (r among them) do not end the header's scope.
C10_HeaderScopeToNextSection ==
    (Shown /\ SourceA /\ Raw.tables # <<>>) =>
        /\ \A hr \in ScopesA :
              LET h == hr[1]
                  r == hr[2]
              IN  /\ 0 < h /\ h < r
                  /\ \E start \in StartsA :
                        /\ start < h
                        /\ r \in SegmentA(start)
                        /\ h = Nth(HeaderCandidatesA(start), 1)
                  /\ \A m \in h..r : m \notin StartsA
                  /\ Len(RowsA[r]) = Len(RowsA[h])
        /\ \A r \in RecordsA : MapsByPosition(r.rec, r.headerRow, r.row)

\* C10 witness: two Sections are shown, and a Record was built from a row
\* that is itself shaped like a header
C10_Witness ==
    /\ Shown /\ SourceA /\ Raw.tables # <<>>
    /\ Len(Out.tables) = 2
    /\ \E hr \in ScopesA : LooksLikeHeader(RowsA[hr[2]])


\* source A, stated on one row alone: the shape of a header
HeaderShaped(row) ==
    /\ Len(row) \in 2..19
    /\ \A j \in DOMAIN row : Len(row[j]) \in 1..49
    /\ \A j \in DOMAIN row : ~ DateLike(row[j])

\* source A: the state of the loop of parseDCSCTables after the first i rows
ScanA(i) ==
    DCSCRows([allSections    |-> <<>>,
              currentSection |-> None,
              currentHeaders |-> <<>>,
              headerRow      |-> 0], SubSeq(RowsA, 1, i), 1)

\* the Records collected after the first i rows
RecordsAfterA(i) ==
    LET st == ScanA(i)
        emitted == { <<s, k>> : s \in DOMAIN st.allSections, k \in DOMAIN RowsA }
    IN  { st.allSections[sk[1]].from[sk[2]] :
            sk \in { x \in emitted : x[2] <= Len(st.allSections[x[1]].from) } }
        \cup (IF st.currentSection = None THEN {}
              ELSE { st.currentSection[1].from[k] : k \in DOMAIN st.currentSection[1].from })

\* C11: within a section without a header the header is the first row with
\* more than 1 and fewer than 20 cells, every cell of length in (0, 50) and no
\* date-like cell; the rows of the section before it are skipped, give no
\* Record and leave the section without a header; the rows before the first
\* section marker of a table give nothing.
C11_HeaderSelection ==
    (Shown /\ SourceA /\ Raw.tables # <<>>) =>
        \A i \in DOMAIN RowsA :
            LET st     == ScanA(i)
                starts == { m \in StartsA : m <= i }
            IN  IF starts = {}
                THEN /\ st.currentSection = None
                     /\ st.allSections = <<>>
                     /\ st.currentHeaders = <<>>
                ELSE LET start  == Nth(starts, Cardinality(starts))
                         shaped == { j \in (start + 1)..i : HeaderShaped(RowsA[j]) }
                     IN  /\ st.currentSection # None
                         /\ IF shaped = {}
                            THEN /\ st.currentHeaders = <<>>
                                 /\ st.currentSection[1].data = <<>>
                            ELSE LET h == Nth(shaped, 1)
                                 IN  /\ st.headerRow = h
                                     /\ st.currentHeaders =
                                           [j \in DOMAIN RowsA[h] |-> CleanHeader(RowsA[h][j])]
                                     /\ \A hr \in RecordsAfterA(i) :
                                           hr[2] > start => (hr[1] = h /\ hr[2] > h)
                         /\ \A hr \in RecordsAfterA(i) : hr[1] > Nth(StartsA, 1)

\* C11 witness: rows shaped like a header precede the first section marker,
\* the section's first rows fail the header test, a row of 19 cells becomes
\* the header and a Record is shown under it
C11_Witness ==
    /\ Shown /\ SourceA /\ Raw.tables # <<>>
    /\ StartsA # {}
    /\ \E j \in 1..(Nth(StartsA, 1) - 1) : HeaderShaped(RowsA[j])
    /\ \E r \in RecordsA :
          /\ Len(r.headerRow) = 19
          /\ \E j \in DOMAIN RowsA :
                /\ j > Nth(StartsA, 1) /\ j < Len(RowsA)
                /\ Len(RowsA[j]) = 20 /\ RowsA[j + 1] = r.headerRow


\* a text with a character that is not white space
NonBlank(text) == \E k \in DOMAIN text : ~ IsSpace(text[k])

\* the placeholder keys of the positions of a header row
Placeholders(headerRow) ==
    { strColumn_ \o NumberToString(j) : j \in DOMAIN headerRow }

\* C12: in the pipeline the placeholder key Column <i> and the empty-string
\* default value occur in no Record: every cell the server hands over is a
\* non-empty string, so every header cell of a Record gives a non-empty key of
\* its own, every key of a Record is non-empty and, where it reads Column <i>,
\* is the text of a header cell, and every value is a non-empty string.
C12_NoPlaceholderNoDefault ==
    Shown =>
        /\ \A t \in DOMAIN Raw.tables :
              \A k \in DOMAIN Raw.tables[t].rows :
                  \A j \in DOMAIN Raw.tables[t].rows[k] :
                      NonBlank(Raw.tables[t].rows[k][j])
        /\ \A r \in RecordsShown :
              /\ \A j \in DOMAIN r.headerRow : NonBlank(r.headerRow[j])
              /\ \A j \in DOMAIN r.row : r.row[j] # <<>>
              /\ \A key \in DOMAIN r.rec :
                    /\ NonBlank(key)
                    /\ r.rec[key] # <<>>
                    /\ key \in Placeholders(r.headerRow) =>
                          \E j \in DOMAIN r.headerRow : r.headerRow[j] = key

\* C12 witness: a Record is shown whose header <tr> and data <tr> each had a
\* cell of white space only between two others, dropped by the extractor
C12_Witness ==
    /\ Shown /\ SourceA /\ html # None
    /\ \E r \in RecordsA :
          \E h, d \in DOMAIN html[1][1].trs :
              LET trH == html[1][1].trs[h]
                  trD == html[1][1].trs[d]
              IN  /\ Len(trH) = 3 /\ Len(trD) = 3
                  /\ ~ NonBlank(trH[2].text) /\ ~ NonBlank(trD[2].text)
                  /\ r.headerRow = <<Trim(trH[1].text), Trim(trH[3].text)>>
                  /\ r.row = <<Trim(trD[1].text), Trim(trD[3].text)>>
                  /\ Cardinality(DOMAIN r.rec) = 2

====
